---- MODULE Spec2Model ----
(***************************************************************************)
(* House of Consequences Core: the audit chain of governance/api/main.py   *)
(* and the enforcement rules of governance/audit/rules.py.                 *)
(*                                                                         *)
(* Text is modelled as a sequence of tokens (a Python str is the           *)
(* concatenation of its tokens), so that `in`, lower() and f-string        *)
(* prefixes are computed rather than assumed.  SHA-256 is modelled as an   *)
(* injective constructor over its preimage (no collisions).                *)
(***************************************************************************)
EXTENDS Integers, Sequences, FiniteSets, TLC

VARIABLES
    chain,      \* AUDIT_CHAIN: the list of stored audit entries
    schema,     \* required top-level keys of schemas/audit.log.schema.json
    uuids,      \* number of uuid4() values drawn so far
    clock,      \* datetime.utcnow(), in ticks
    last,       \* the response (or fault) of the last request served
    tampered    \* position of the stored entry altered outside the API, 0 if none

vars == <<chain, schema, uuids, clock, last, tampered>>

-----------------------------------------------------------------------------
(* Bounds of the model *)

MaxUuids == 2

MaxReportTime == 1

-----------------------------------------------------------------------------
(* Text helpers *)

\* Python `sub in s` on strings
Contains(s, sub) ==
    \E i \in 1..(Len(s) - Len(sub) + 1) : SubSeq(s, i, i + Len(sub) - 1) = sub

LowerTok(t) ==
    CASE t = "ENABLE_SURVEILLANCE" -> "enable_surveillance"
      [] t = "Track_Users" -> "track_users"
      [] t = "Create" -> "create"
      [] t = "Profiling" -> "profiling"
      [] OTHER -> t

\* Python str.lower()
Lower(s) == [i \in 1..Len(s) |-> LowerTok(s[i])]

\* Python dict.get(key, default)
DictGet(d, key, default) == IF key \in DOMAIN d THEN d[key] ELSE default

RECURSIVE StrDictOver(_, _)
StrDictOver(d, keys) ==
    IF keys = {} THEN <<>>
    ELSE LET k == CHOOSE x \in keys : TRUE
         IN  <<k>> \o d[k] \o StrDictOver(d, keys \ {k})

\* Python str(dict): the keys and values of the dict, as text
StrDict(d) == StrDictOver(d, DOMAIN d)

None == <<"None">>

GENESIS == <<"GENESIS">>

\* hashlib.sha256(data).hexdigest()
Sha256(data) == <<"sha256", data>>

\* str(uuid.uuid4()): the n-th value drawn is fresh
Uuid(n) == <<"uuid-", ToString(n)>>

-----------------------------------------------------------------------------
(* governance/audit/rules.py *)

RED_LINES ==
    <<"No features enabling surveillance, repression, or population profiling",
      "No exclusive access agreements with states or corporations",
      "No closed or proprietary forks of the core protocol",
      "No suppression, distortion, or hiding of core analytical outputs",
      "No opaque or non-auditable AI/ML models",
      "No centralized control over data, logic, or governance",
      "No integration that enables discrimination, coercion, or manipulation">>

FORBIDDEN_ACTIONS ==
    << <<"enable_surveillance">>, <<"population_profiling">>, <<"track_users">>,
       <<"behavior_analysis">>,
       <<"exclusive_license">>, <<"state_monopoly">>, <<"corporate_lockin">>,
       <<"proprietary_fork">>, <<"closed_source">>, <<"license_restrict">>,
       <<"suppress_audit">>, <<"hide_evidence">>, <<"distort_analysis">>,
       <<"black_box_model">>, <<"proprietary_ai">>, <<"undocumented_ml">>,
       <<"centralize_control">>, <<"single_point_failure">>, <<"kill_switch">>,
       <<"discriminate">>, <<"coerce_civic_process">>, <<"manipulate_vote">> >>

SURVEILLANCE_PATTERNS ==
    << <<"user_tracking">>, <<"personal_data_retention">>, <<"profiling">>,
       <<"behavior_score">> >>

CentralRoles == {"SuperAdmin", "GodMode", "Root"}

\* hash_entry pops the TOP-LEVEL key "hash" of a shallow copy, then hashes
\* the canonical JSON of what is left followed by previous_hash
hash_entry(entry, previous_hash) ==
    LET entry_copy == [k \in (DOMAIN entry) \ {"hash"} |-> entry[k]]
    IN  Sha256(<<entry_copy, previous_hash>>)

\* jsonschema.validate(data, AUDIT_ENTRY_SCHEMA) succeeds
validate_schema(data) == schema \subseteq DOMAIN data

\* a raw request carries its action as a str, an entry built by
\* create_audit_entry carries it as a dict
ActionIsStr(entry) == "event_id" \notin DOMAIN entry

\* list.index(x), 0-based
IndexOf(seq, x) ==
    (CHOOSE i \in 1..Len(seq) : seq[i] = x /\ \A j \in 1..(i - 1) : seq[j] # x) - 1

RedLineViolation(idx, text) ==
    [code |-> "RED_LINE_VIOLATION", rule |-> idx, text |-> text]

ForbiddenActionViolations(entry) ==
    IF /\ "action" \in DOMAIN entry
       /\ ActionIsStr(entry)
       /\ \E i \in 1..Len(FORBIDDEN_ACTIONS) : FORBIDDEN_ACTIONS[i] = entry.action
    THEN LET idx == (IndexOf(FORBIDDEN_ACTIONS, entry.action) \div 7) + 1
         IN  << RedLineViolation(idx, RED_LINES[idx]) >>
    ELSE <<>>

RECURSIVE SurveillanceViolations(_, _)
SurveillanceViolations(metadata, n) ==
    IF n > Len(SURVEILLANCE_PATTERNS) THEN <<>>
    ELSE (IF Contains(Lower(metadata), SURVEILLANCE_PATTERNS[n])
          THEN << RedLineViolation(1, "surveillance pattern detected") >>
          ELSE <<>>)
         \o SurveillanceViolations(metadata, n + 1)

SchemaViolations(entry) ==
    IF ~ validate_schema(entry)
    THEN << [code |-> "CONSTITUTIONAL_VIOLATION", rule |-> 0,
             text |-> "schema non-compliance"] >>
    ELSE <<>>

CentralizationViolations(entry) ==
    IF "actor" \in DOMAIN entry /\ "role" \in DOMAIN entry.actor
       /\ entry.actor.role \in CentralRoles
    THEN << RedLineViolation(6, "centralized control attempt") >>
    ELSE <<>>

\* a gate that stops at the first check that finds something
validate_red_lines_short_circuit(entry) ==
    LET metadata == StrDict(DictGet(entry, "metadata", <<>>))
    IN  IF ForbiddenActionViolations(entry) # <<>>
        THEN ForbiddenActionViolations(entry)
        ELSE IF SurveillanceViolations(metadata, 1) # <<>>
        THEN SurveillanceViolations(metadata, 1)
        ELSE SchemaViolations(entry) \o CentralizationViolations(entry)

validate_red_lines(entry) ==
    LET metadata == StrDict(DictGet(entry, "metadata", <<>>))
    IN  ForbiddenActionViolations(entry)
        \o SurveillanceViolations(metadata, 1)
        \o SchemaViolations(entry)
        \o CentralizationViolations(entry)

create_audit_entry(actor_id, role, action, target, metadata, previous_hash, id, now) ==
    LET entry ==
          [event_id  |-> Uuid(id),
           timestamp |-> now,
           actor     |-> [actor_id |-> actor_id,
                          actor_type |-> IF Contains(actor_id, <<"@">>)
                                         THEN "human" ELSE "system",
                          authentication_method |-> "session",
                          role |-> role,
                          organization |-> DictGet(metadata, "organization", <<"HoC Core">>)],
           action    |-> [type |-> IF Contains(Lower(action), <<"create">>)
                                   THEN "create" ELSE "update",
                          operation |-> action,
                          status |-> "pending"],
           object    |-> [object_type |-> "audit_entry",
                          object_id |-> target,
                          object_hash |-> Sha256(target)],
           context   |-> [decision_id |-> DictGet(metadata, "decision_id", <<"N/A">>),
                          lifecycle_stage |-> "learning",
                          jurisdiction |-> "FI"],
           integrity |-> [previous_hash |-> previous_hash,
                          hash_algorithm |-> "SHA-256",
                          chain_position |-> 0],
           legal_status |-> [evidentiary_class |-> "administrative",
                             retention_policy |-> "P30Y",
                             admissibility |-> "prima_facie"],
           signature |-> [signature_type |-> "none",
                          signed_at |-> None,
                          signer_id |-> None],
           metadata  |-> metadata]
    IN  [entry EXCEPT !.integrity =
            [previous_hash |-> previous_hash,
             hash_algorithm |-> "SHA-256",
             chain_position |-> 1,
             hash |-> hash_entry(entry, previous_hash)]]

\* the hash the verifier recomputes for the entry at 1-based position i
ExpectedHash(c, i) ==
    hash_entry(c[i], IF i > 1 THEN c[i - 1].integrity.hash ELSE GENESIS)

HashMismatch(c, i) == ExpectedHash(c, i) # c[i].integrity.hash

audit_chain_status(c) ==
    IF c = <<>> THEN [valid |-> TRUE, length |-> 0]
    ELSE LET violations ==
                Cardinality({i \in 1..Len(c) : validate_red_lines(c[i]) # <<>>})
                + Cardinality({i \in 1..Len(c) : HashMismatch(c, i)})
         IN  [valid |-> violations = 0,
              length |-> Len(c),
              red_line_violations |-> violations,
              tamper_detected |-> violations > 0]

-----------------------------------------------------------------------------
(* governance/api/main.py *)

\* the requests the model submits
ActorIds == { <<"alice", "@", "hoc.org">> }

Roles == {"admin", "Root"}

Actions == { <<"create", "_record">>, <<"enable_surveillance">>, <<"track_users">> }

Metadatas == { <<>>, [note |-> <<"user_", "profiling">>] }

Requests ==
    [actor : [id : ActorIds, role : Roles, organization : {None}],
     action : Actions,
     target : {"users"},
     metadata : Metadatas]

\* the required keys the schema file may list: the request's shape, the
\* stored entry's shape (section 3 of the specification), or a shape both have
Schemas ==
    { {"actor", "action", "target", "metadata"},
      {"event_id", "timestamp", "actor", "action", "object", "context",
       "integrity", "legal_status", "signature", "metadata"},
      {"actor", "action"} }

ValidatorForbidden ==
    { <<"enable_surveillance">>, <<"closed_fork">>, <<"suppress_audit">> }

\* AuditEntryRequest.validate_action raises ValueError
validate_action_raises(v) == \E f \in ValidatorForbidden : Contains(Lower(v), f)

\* a helper that has no value for the empty chain
get_previous_hash_no_genesis ==
    IF chain # <<>> THEN chain[Len(chain)].integrity.hash ELSE <<>>

get_previous_hash == IF chain # <<>> THEN chain[Len(chain)].integrity.hash ELSE GENESIS

\* a store that keeps its last slot for the newest entry
ChainAppendOverwritesLast(c, e) ==
    IF c = <<>> THEN <<e>> ELSE Append(SubSeq(c, 1, Len(c) - 1), e)

\* AUDIT_CHAIN.append(audit_entry)
ChainAppend(c, e) == Append(c, e)

\* str(e) of a jsonschema.ValidationError: the message and the failing instance
ValidationErrorText(raw) ==
    <<"ValidationError: ">> \o raw.actor.id \o <<raw.actor.role>> \o raw.action
        \o <<raw.target>> \o StrDict(raw.metadata)

\* sign_bytes(PRIVATE_KEY, data).hex()
sign_bytes(data) == <<"signature", data>>

Init ==
    /\ chain = <<>>
    /\ schema \in Schemas
    /\ uuids = 0
    /\ clock = 0
    /\ last = [op |-> "none", outcome |-> "ok"]
    /\ tampered = 0

\* pydantic rejects the request before the handler runs (HTTP 422)
SubmitRejectedByValidator(entry_req) ==
    /\ validate_action_raises(entry_req.action)
    /\ last' = [op |-> "submit", outcome |-> "rejected_validation"]
    /\ UNCHANGED <<chain, schema, uuids, clock, tampered>>

\* step 1: schema violation, recorded with the default previous_hash (HTTP 400)
SubmitRejectedBySchema(entry_req) ==
    /\ ~ validate_action_raises(entry_req.action)
    /\ ~ validate_schema(entry_req)
    /\ uuids < MaxUuids
    /\ LET audit_entry ==
             create_audit_entry(entry_req.actor.id, entry_req.actor.role,
                                <<"SCHEMA_VIOLATION_">> \o entry_req.action,
                                entry_req.target,
                                [error |-> ValidationErrorText(entry_req)],
                                GENESIS, uuids + 1, clock)
       IN  /\ chain' = ChainAppend(chain, audit_entry)
           /\ last' = [op |-> "submit", outcome |-> "rejected_schema"]
    /\ uuids' = uuids + 1
    /\ clock' = clock + 1
    /\ UNCHANGED <<schema, tampered>>

\* step 2: create_audit_entry(**raw_entry, ...) is called with the keyword
\* `actor`, which it does not take: TypeError, nothing is appended (HTTP 500)
SubmitRejectedByPolicy(entry_req) ==
    /\ ~ validate_action_raises(entry_req.action)
    /\ validate_schema(entry_req)
    /\ validate_red_lines(entry_req) # <<>>
    /\ last' = [op |-> "submit", outcome |-> "fault", error |-> "TypeError"]
    /\ UNCHANGED <<chain, schema, uuids, clock, tampered>>

\* steps 3 and 4: the entry is built, signed, then appended
SubmitAccepted(entry_req) ==
    /\ ~ validate_action_raises(entry_req.action)
    /\ validate_schema(entry_req)
    /\ validate_red_lines(entry_req) = <<>>
    /\ uuids < MaxUuids
    /\ LET built == create_audit_entry(entry_req.actor.id, entry_req.actor.role,
                                       entry_req.action, entry_req.target,
                                       entry_req.metadata, get_previous_hash,
                                       uuids + 1, clock)
           audit_entry ==
               [built EXCEPT !.signature =
                   [signature_type |-> "none", signed_at |-> None, signer_id |-> None,
                    signature_value |-> sign_bytes(built.integrity.hash)]]
       IN  /\ chain' = ChainAppend(chain, audit_entry)
           /\ last' = [op |-> "submit", outcome |-> "logged",
                       entry_id |-> audit_entry.event_id,
                       chain_position |-> audit_entry.integrity.chain_position,
                       chain_hash |-> audit_entry.integrity.hash]
    /\ uuids' = uuids + 1
    /\ clock' = clock + 1
    /\ UNCHANGED <<schema, tampered>>

\* steps 3 and 4 when sign_bytes raises: the built entry is lost (HTTP 500)
SubmitSignFailed(entry_req) ==
    /\ ~ validate_action_raises(entry_req.action)
    /\ validate_schema(entry_req)
    /\ validate_red_lines(entry_req) = <<>>
    /\ uuids < MaxUuids
    /\ last' = [op |-> "submit", outcome |-> "fault", error |-> "SignError"]
    /\ uuids' = uuids + 1
    /\ clock' = clock + 1
    /\ UNCHANGED <<chain, schema, tampered>>

log_audit_entry(entry_req) ==
    \/ SubmitRejectedByValidator(entry_req)
    \/ SubmitRejectedBySchema(entry_req)
    \/ SubmitRejectedByPolicy(entry_req)
    \/ SubmitAccepted(entry_req)
    \/ SubmitSignFailed(entry_req)

\* AuditReportRequest.start_time / end_time: absent, or an ISO string with "Z"
OptionalTimes ==
    {[present |-> FALSE, t |-> 0]} \cup {[present |-> TRUE, t |-> x] : x \in 1..MaxReportTime}

ReportRequests ==
    [case_id : {"CASE-1"}, start_time : OptionalTimes, end_time : OptionalTimes]

\* datetime.fromisoformat(...) of a given bound is offset-aware;
\* the defaults datetime.min and datetime.max are offset-naive
ParseBound(opt) == [aware |-> opt.present, t |-> opt.t]

\* `start_time <= ts <= end_time` raises TypeError when it compares the
\* offset-aware ts of a stored entry with an offset-naive bound
FilterRaises(c, start_time, end_time) ==
    \E i \in 1..Len(c) :
        \/ ~ start_time.aware
        \/ (start_time.t <= c[i].timestamp /\ ~ end_time.aware)

FilterChain(c, start_time, end_time) ==
    SelectSeq(c, LAMBDA entry :
        start_time.t <= entry.timestamp /\ entry.timestamp <= end_time.t)

\* the time filter faults before anything is drawn or written (HTTP 500)
ReportFilterFault(request) ==
    /\ FilterRaises(chain, ParseBound(request.start_time), ParseBound(request.end_time))
    /\ last' = [op |-> "report", outcome |-> "fault", error |-> "TypeError"]
    /\ UNCHANGED <<chain, schema, uuids, clock, tampered>>

\* sign_bytes raises on the report hash: no audit entry is written (HTTP 500)
ReportSignFailed(request) ==
    /\ ~ FilterRaises(chain, ParseBound(request.start_time), ParseBound(request.end_time))
    /\ uuids < MaxUuids
    /\ last' = [op |-> "report", outcome |-> "fault", error |-> "SignError"]
    /\ uuids' = uuids + 1
    /\ clock' = clock + 1
    /\ UNCHANGED <<chain, schema, tampered>>

\* the report is rendered and signed, and its generation is audited with
\* the default previous_hash
ReportGenerated(request) ==
    /\ ~ FilterRaises(chain, ParseBound(request.start_time), ParseBound(request.end_time))
    /\ uuids < MaxUuids
    /\ LET report_id == Uuid(uuids + 1)
           filtered_chain == FilterChain(chain, ParseBound(request.start_time),
                                         ParseBound(request.end_time))
           audit_entry ==
               create_audit_entry(<<"hoc-audit-system">>, "SystemAuditor",
                                  <<"generate_audit_report">>, request.case_id,
                                  [report_id |-> report_id,
                                   pdf_path |-> <<"audit_report_">> \o report_id \o <<".pdf">>],
                                  GENESIS, uuids + 2, clock)
       IN  /\ chain' = ChainAppend(chain, audit_entry)
           /\ last' = [op |-> "report", outcome |-> "generated",
                       report_id |-> report_id,
                       chain_length |-> Len(filtered_chain)]
    /\ uuids' = uuids + 2
    /\ clock' = clock + 1
    /\ UNCHANGED <<schema, tampered>>

generate_audit_report_endpoint(request) ==
    \/ ReportFilterFault(request)
    \/ ReportSignFailed(request)
    \/ ReportGenerated(request)

\* a verifier that rewrites the stored hashes it finds wrong
get_audit_chain_heals ==
    /\ last' = [op |-> "chain", outcome |-> "ok",
                chain_length |-> Len(chain),
                status |-> audit_chain_status(chain),
                last_hash |-> get_previous_hash]
    /\ chain' = [i \in 1..Len(chain) |->
                    [chain[i] EXCEPT !.integrity.hash = ExpectedHash(chain, i)]]
    /\ UNCHANGED <<schema, uuids, clock, tampered>>

get_audit_chain ==
    /\ last' = [op |-> "chain", outcome |-> "ok",
                chain_length |-> Len(chain),
                status |-> audit_chain_status(chain),
                last_hash |-> get_previous_hash]
    /\ UNCHANGED <<chain, schema, uuids, clock, tampered>>

governance_status ==
    /\ LET chain_status == audit_chain_status(chain)
       IN  last' = IF "tamper_detected" \in DOMAIN chain_status
                   THEN [op |-> "status", outcome |-> "ok",
                         status |-> IF chain_status.valid THEN "ACTIVE" ELSE "COMPROMISED",
                         audit_entries |-> Len(chain),
                         red_line_violations |->
                             DictGet(chain_status, "red_line_violations", 0),
                         tamper_detected |-> chain_status.tamper_detected]
                   ELSE [op |-> "status", outcome |-> "fault", error |-> "KeyError"]
    /\ UNCHANGED <<chain, schema, uuids, clock, tampered>>

\* every handler is an `async def` without an await: on the event loop it
\* runs from its first line to its return (or raise) as one step, so
\* concurrent requests interleave as whole handlers
Next ==
    \/ \E entry_req \in Requests : log_audit_entry(entry_req)
    \/ \E request \in ReportRequests : generate_audit_report_endpoint(request)
    \/ get_audit_chain
    \/ governance_status

Spec == Init /\ [][Next]_vars

-----------------------------------------------------------------------------
(* Alteration of a stored entry from outside the API *)

TamperFields == {"operation", "role", "metadata", "hash", "previous_hash"}

TamperEntry(entry, field) ==
    CASE field = "operation" -> [entry EXCEPT !.action.operation = <<"edited">>]
      [] field = "role" -> [entry EXCEPT !.actor.role = "auditor"]
      [] field = "metadata" -> [entry EXCEPT !.metadata = [note |-> <<"edited">>]]
      [] field = "hash" -> [entry EXCEPT !.integrity.hash = Sha256(<<"forged">>)]
      [] field = "previous_hash" ->
            [entry EXCEPT !.integrity.previous_hash = Sha256(<<"forged">>)]

Tamper(k, field) ==
    /\ tampered = 0
    /\ k \in 1..Len(chain)
    /\ chain' = [chain EXCEPT ![k] = TamperEntry(chain[k], field)]
    /\ tampered' = k
    /\ last' = [op |-> "tamper", outcome |-> "ok"]
    /\ UNCHANGED <<schema, uuids, clock>>

NextTamper ==
    \/ Next
    \/ \E k \in 1..MaxUuids, field \in TamperFields : Tamper(k, field)

SpecTamper == Init /\ [][NextTamper]_vars

-----------------------------------------------------------------------------
(* The Policy Gate as a function: validate_red_lines applied to one entry, *)
(* as the self-test at the end of rules.py applies it                      *)

\* a Python str found where a dict is expected
PyStr(tokens) == [str |-> tokens]

IsDict(v) == "str" \notin DOMAIN v

\* entry.get("actor", {}).get("role") raises AttributeError when the actor
\* is not a dict
validate_red_lines_raises(entry) ==
    "actor" \in DOMAIN entry /\ ~ IsDict(entry.actor)

GateActions ==
    { <<"create", "_record">>, <<"enable_surveillance">>, <<"track_users">>,
      <<"Track_Users">>, <<"track_users", "_daily">>,
      <<"exclusive_license">>, <<"manipulate_vote">> }

GateMetadatas == { <<>>, [note |-> <<"user_", "profiling">>], [note |-> <<"Profiling">>] }

\* raw requests, as log_audit_entry passes them
GateRawEntries ==
    [actor : [id : ActorIds, role : Roles, organization : {None}],
     action : GateActions,
     target : {"users"},
     metadata : GateMetadatas]

\* stored entries, as audit_chain_status and the self-test pass them
GateStoredEntries ==
    { create_audit_entry(r.actor.id, r.actor.role, r.action, r.target,
                         r.metadata, GENESIS, 1, 0) : r \in GateRawEntries }

\* entries of another shape: no actor, no metadata, an actor that is a str
GateOddEntries ==
    { [action |-> <<"evidence_validation">>, metadata |-> [note |-> <<"profiling">>]],
      [actor |-> [id |-> <<"svc-1">>, role |-> "Root"], action |-> <<"track_users">>],
      [actor |-> PyStr(<<"alice">>), action |-> <<"create", "_record">>,
       metadata |-> <<>>] }

GateInputs == GateRawEntries \cup GateStoredEntries \cup GateOddEntries

InitGate ==
    /\ chain = <<>>
    /\ schema \in Schemas
    /\ uuids = 0
    /\ clock = 0
    /\ tampered = 0
    /\ last \in {[op |-> "input", outcome |-> "ok", entry |-> e] : e \in GateInputs}

EvaluateGate ==
    /\ last.op = "input"
    /\ last' = IF validate_red_lines_raises(last.entry)
               THEN [op |-> "gate", outcome |-> "fault", entry |-> last.entry,
                     error |-> "AttributeError"]
               ELSE [op |-> "gate", outcome |-> "ok", entry |-> last.entry,
                     violations |-> validate_red_lines(last.entry)]
    /\ UNCHANGED <<chain, schema, uuids, clock, tampered>>

NextGate == EvaluateGate

SpecGate == InitGate /\ [][NextGate]_vars

\* the red line under which rules.py lists each forbidden action
RED_LINE_GROUPS ==
    << { <<"enable_surveillance">>, <<"population_profiling">>, <<"track_users">>,
         <<"behavior_analysis">> },
       { <<"exclusive_license">>, <<"state_monopoly">>, <<"corporate_lockin">> },
       { <<"proprietary_fork">>, <<"closed_source">>, <<"license_restrict">> },
       { <<"suppress_audit">>, <<"hide_evidence">>, <<"distort_analysis">> },
       { <<"black_box_model">>, <<"proprietary_ai">>, <<"undocumented_ml">> },
       { <<"centralize_control">>, <<"single_point_failure">>, <<"kill_switch">> },
       { <<"discriminate">>, <<"coerce_civic_process">>, <<"manipulate_vote">> } >>

-----------------------------------------------------------------------------
(* Properties *)

\* the step serves a submit
SubmitStep == \E entry_req \in Requests : log_audit_entry(entry_req)

\* the entry was appended by the accepted path (the only one that signs)
IsAcceptedEntry(entry) == "signature_value" \in DOMAIN entry.signature

\* the entry was appended by a submit, not by the report endpoint
IsSubmitEntry(entry) == entry.actor.actor_id # <<"hoc-audit-system">>

\* first position at which the verifier's hash comparison fails, 0 if none
FirstHashMismatch(c) ==
    IF \E i \in 1..Len(c) : HashMismatch(c, i)
    THEN CHOOSE i \in 1..Len(c) :
            HashMismatch(c, i) /\ \A j \in 1..(i - 1) : ~ HashMismatch(c, j)
    ELSE 0

\* C1: the entry stored at 1-based index n of the chain has
\* integrity.chain_position = n, whatever path appended it.
C1_ChainPositionIsIndex ==
    \A n \in 1..Len(chain) : chain[n].integrity.chain_position = n

\* C2: the first entry has previous_hash "GENESIS" and every later entry n
\* has previous_hash equal to the stored hash of entry n-1.
C2_PreviousHashLinks ==
    \A n \in 1..Len(chain) :
        chain[n].integrity.previous_hash =
            IF n = 1 THEN GENESIS ELSE chain[n - 1].integrity.hash

\* C3: every submit call, whatever its outcome, appends exactly one entry
\* to the chain and leaves the earlier entries in place.
C3_EverySubmitAppendsOnce ==
    [][SubmitStep =>
          /\ Len(chain') = Len(chain) + 1
          /\ SubSeq(chain', 1, Len(chain)) = chain]_vars

\* C4: when every stored entry comes from an accepted submit and nothing
\* was altered, verify answers valid = true and checks the whole chain.
C4_AcceptedChainVerifies ==
    (/\ last.op = "chain"
     /\ tampered = 0
     /\ \A i \in 1..Len(chain) : IsAcceptedEntry(chain[i]))
        => (last.status.valid /\ last.status.length = Len(chain))

\* C5: after entry k of a chain built by submit is altered, verify answers
\* valid = false and the first broken position is k.
C5_TamperLocatedAtK ==
    (/\ last.op = "chain"
     /\ tampered # 0
     /\ \A i \in 1..Len(chain) : IsSubmitEntry(chain[i]))
        => (/\ ~ last.status.valid
            /\ FirstHashMismatch(chain) = tampered)

\* C6: a submit of a schema-valid request for which the Policy Gate yields
\* violations appends an entry marked non_compliant that carries the
\* violations, and answers with a policy rejection naming them.
C6_PolicyRejectionRecorded ==
    [][\A entry_req \in Requests :
          (/\ log_audit_entry(entry_req)
           /\ validate_schema(entry_req)
           /\ validate_red_lines(entry_req) # <<>>)
          => (/\ Len(chain') = Len(chain) + 1
              /\ "compliance_status" \in DOMAIN chain'[Len(chain')]
              /\ chain'[Len(chain')].compliance_status = "non_compliant"
              /\ chain'[Len(chain')].violations = validate_red_lines(entry_req)
              /\ last'.outcome = "rejected_policy"
              /\ last'.violations = validate_red_lines(entry_req))]_vars

\* C7: a submit that reaches the Schema Gate and fails it appends exactly
\* one entry whose operation is the submitted one prefixed with the schema
\* violation marker, answers with a schema rejection, and the appended
\* entry takes the next chain position.
C7_SchemaRejectionRecorded ==
    [][\A entry_req \in Requests :
          (/\ log_audit_entry(entry_req)
           /\ ~ validate_action_raises(entry_req.action)
           /\ ~ validate_schema(entry_req))
          => (/\ Len(chain') = Len(chain) + 1
              /\ SubSeq(chain', 1, Len(chain)) = chain
              /\ chain'[Len(chain')].action.operation =
                    <<"SCHEMA_VIOLATION_">> \o entry_req.action
              /\ last'.outcome = "rejected_schema"
              /\ chain'[Len(chain')].integrity.chain_position = Len(chain) + 1)]_vars

\* C8: no two entries of the chain carry the same previous_hash or the
\* same chain_position, under any interleaving of the handlers.
C8_NoForkedEntries ==
    \A i, j \in 1..Len(chain) :
        i # j => /\ chain[i].integrity.previous_hash # chain[j].integrity.previous_hash
                 /\ chain[i].integrity.chain_position # chain[j].integrity.chain_position

\* C9: the chain is append-only: every step leaves the chain it found as a
\* prefix of the chain it leaves, each stored entry unchanged.
C9_AppendOnly ==
    [][/\ Len(chain') >= Len(chain)
       /\ SubSeq(chain', 1, Len(chain)) = chain]_vars

\* a report has been appended behind an entry that was already stored
C9_Witness ==
    /\ Len(chain) >= 2
    /\ last.op = "report"
    /\ last.outcome = "generated"

\* C10: when the signer fails during a submit that passed both gates, the
\* entry is appended all the same.
C10_SignFailureStillRecords ==
    [][(/\ SubmitStep
        /\ last'.outcome = "fault"
        /\ last'.error = "SignError")
          => Len(chain') = Len(chain) + 1]_vars

\* the entry without the key integrity.hash
WithoutIntegrityHash(entry) ==
    [entry EXCEPT !.integrity =
        [k \in (DOMAIN entry.integrity) \ {"hash"} |-> entry.integrity[k]]]

\* the entry without the key signature.signature_value
WithoutSignatureValue(entry) ==
    [entry EXCEPT !.signature =
        [k \in (DOMAIN entry.signature) \ {"signature_value"} |-> entry.signature[k]]]

\* the operation of an entry handed to the Policy Gate
OperationOf(entry) ==
    IF ActionIsStr(entry) THEN entry.action ELSE entry.action.operation

\* the operation, case-normalised, equals or contains a forbidden identifier
MatchesForbidden(operation) ==
    \E i \in 1..Len(FORBIDDEN_ACTIONS) :
        Contains(Lower(operation), FORBIDDEN_ACTIONS[i])

\* the violation is the one the forbidden-action check emits
IsForbiddenActionViolation(v) ==
    /\ v.code = "RED_LINE_VIOLATION"
    /\ \E n \in 1..Len(RED_LINES) : v.text = RED_LINES[n]

\* the step serves a status or verify request
ReadStep == get_audit_chain \/ governance_status

\* C11: hash_entry gives the same digest for a stored entry and for the
\* same entry without integrity.hash, for any previous_hash.
C11_HashIgnoresOwnHash ==
    \A i \in 1..Len(chain) :
        \A previous_hash \in {GENESIS, chain[i].integrity.hash} :
            hash_entry(chain[i], previous_hash)
                = hash_entry(WithoutIntegrityHash(chain[i]), previous_hash)

\* C12: on the empty chain, status reports last_hash "GENESIS" and verify
\* reports valid = true.
C12_EmptyChainStatus ==
    (last.op = "chain" /\ chain = <<>>)
        => (last.last_hash = GENESIS /\ last.status.valid)

\* the chain status was asked of the empty chain
C12_Witness == last.op = "chain" /\ chain = <<>> /\ last.chain_length = 0

\* C13: the entry appended by an accepted submit has action.status
\* "accepted" and carries the signature of its hash.
C13_AcceptedEntryMarkedAndSigned ==
    [][(SubmitStep /\ last'.outcome = "logged")
          => (/\ Len(chain') = Len(chain) + 1
              /\ chain'[Len(chain')].action.status = "accepted"
              /\ IsAcceptedEntry(chain'[Len(chain')])
              /\ chain'[Len(chain')].signature.signature_value
                    = sign_bytes(chain'[Len(chain')].integrity.hash))]_vars

\* C14: the Policy Gate emits a forbidden-action violation for every entry,
\* raw or stored, whose operation, case-normalised, equals or contains a
\* forbidden identifier.
C14_ForbiddenActionAlwaysFlagged ==
    (/\ last.op = "gate"
     /\ last.outcome = "ok"
     /\ "action" \in DOMAIN last.entry
     /\ MatchesForbidden(OperationOf(last.entry)))
        => \E n \in 1..Len(last.violations) :
              IsForbiddenActionViolation(last.violations[n])

\* C15: the Policy Gate returns a list of violations for every entry,
\* whatever its shape, and never raises.
C15_GateIsTotal ==
    last.op = "gate" => last.outcome = "ok"

\* C16: a forbidden-action violation carries the number of the red line
\* under which the matched action is listed.
C16_ViolationTaggedWithOwningRule ==
    (last.op = "gate" /\ last.outcome = "ok")
        => \A n \in 1..Len(last.violations) :
              IsForbiddenActionViolation(last.violations[n])
                 => \A g \in 1..Len(RED_LINE_GROUPS) :
                       OperationOf(last.entry) \in RED_LINE_GROUPS[g]
                          => last.violations[n].rule = g

\* C17: the violations count of verify is the number of entries for which
\* the Policy Gate yields violations, whatever the hash comparisons give.
C17_ViolationCountIsPolicyCount ==
    (last.op = "chain" /\ chain # <<>>)
        => last.status.red_line_violations
              = Cardinality({i \in 1..Len(chain) : validate_red_lines(chain[i]) # <<>>})

\* C18: when one entry k of a chain of accepted entries is altered, the
\* verifier's hash comparison fails at k and at no other position.
C18_CorruptionLocalised ==
    (/\ last.op = "chain"
     /\ tampered # 0
     /\ \A i \in 1..Len(chain) : IsAcceptedEntry(chain[i]))
        => \A i \in 1..Len(chain) : HashMismatch(chain, i) <=> (i = tampered)

\* C19: for an accepted entry the verifier's hash comparison matches, and
\* it matches as well when signature.signature_value is left out.
C19_SignatureDoesNotAffectValidity ==
    \A i \in 1..Len(chain) :
        (tampered = 0 /\ IsAcceptedEntry(chain[i]))
            => /\ ~ HashMismatch(chain, i)
               /\ ~ HashMismatch([chain EXCEPT ![i] = WithoutSignatureValue(chain[i])], i)

\* C20: a status or verify request leaves the chain and every entry of it
\* as it found them, on an intact and on an altered chain alike.
C20_ReadsLeaveChainAlone ==
    [][ReadStep => chain' = chain]_vars

\* a status or verify request was served on an altered chain
C20_Witness ==
    /\ tampered # 0
    /\ last.op \in {"chain", "status"}
    /\ last.outcome = "ok"

\* the lower-cased text of the entry's metadata holds a surveillance pattern
MetadataHasPattern(entry) ==
    \E n \in 1..Len(SURVEILLANCE_PATTERNS) :
        Contains(Lower(StrDict(DictGet(entry, "metadata", <<>>))),
                 SURVEILLANCE_PATTERNS[n])

IsSurveillanceViolation(v) ==
    v = RedLineViolation(1, "surveillance pattern detected")

\* C21: the list the Policy Gate returns holds a surveillance (red line 1)
\* violation whenever the lower-cased text of the metadata contains a
\* surveillance pattern, whether or not the forbidden-action check matched,
\* and the role check is reported in the same list.
C21_SurveillanceScanIndependent ==
    (last.op = "gate" /\ last.outcome = "ok")
        => /\ MetadataHasPattern(last.entry)
                <=> \E n \in 1..Len(last.violations) :
                       IsSurveillanceViolation(last.violations[n])
           /\ (/\ MetadataHasPattern(last.entry)
               /\ "actor" \in DOMAIN last.entry
               /\ last.entry.actor.role \in CentralRoles)
                => \E n \in 1..Len(last.violations) : last.violations[n].rule = 6

\* the gate returned a forbidden-action violation and a surveillance
\* violation in one list
C21_Witness ==
    /\ last.op = "gate"
    /\ last.outcome = "ok"
    /\ \E n \in 1..Len(last.violations) : IsForbiddenActionViolation(last.violations[n])
    /\ \E n \in 1..Len(last.violations) : IsSurveillanceViolation(last.violations[n])

\* C22: for every entry a submit appends, the Policy Gate flags the raw
\* request if and only if it flags the stored entry on replay.
C22_WriteAndReplayVerdictsAgree ==
    [][\A entry_req \in Requests :
          (log_audit_entry(entry_req) /\ Len(chain') = Len(chain) + 1)
          => ((validate_red_lines(entry_req) # <<>>)
                <=> (validate_red_lines(chain'[Len(chain')]) # <<>>))]_vars

\* C23: governance_status answers on every chain, the empty one included,
\* with the length, tamper_detected and the violation count.
C23_StatusIsTotal ==
    last.op = "status"
        => /\ last.outcome = "ok"
           /\ {"audit_entries", "tamper_detected", "red_line_violations"}
                 \subseteq DOMAIN last

\* C24: on a chain whose every recomputed hash equals the stored one, the
\* verifier reports tamper_detected = false, policy violations or not.
C24_TamperOnlyFromHashMismatch ==
    (last.op = "chain" /\ \A i \in 1..Len(chain) : ~ HashMismatch(chain, i))
        => /\ "tamper_detected" \in DOMAIN last.status
           /\ ~ last.status.tamper_detected

====
